---- MODULE Spec2Model ----
(***************************************************************************)
(* Data acquisition of cryptocurrency-app.py: get_crypto_data (a retrying  *)
(* requests session, one GET of /coins/markets, tabulation, the except     *)
(* clause that classifies failures), get_fallback_crypto_data, and the     *)
(* module-level code that substitutes the fallback table when the fetched  *)
(* table is empty.                                                         *)
(*                                                                         *)
(* Times are in tenths of a second, percentages in tenths of a percent,    *)
(* market_cap and total_volume in millions.  The behaviour of session.get  *)
(* under Retry(total, read, connect, backoff_factor, status_forcelist) is  *)
(* that of urllib3 1.26 / requests 2.x: urlopen's retry loop,              *)
(* Retry.increment, Retry.is_retry, Retry.sleep, and HTTPAdapter.send's    *)
(* mapping of MaxRetryError.                                               *)
(***************************************************************************)
EXTENDS Integers, Sequences, FiniteSets, TLC

VARIABLES
    pc,             \* position of the script: start, get, got, returned, raised, done,
                    \* widgets, charts
    runs,           \* number of script runs so far (Streamlit reruns the script)
    market,         \* upstream: number of assets the upstream lists
    current_price,  \* the quote currency chosen in the selectbox
    retry,          \* the Retry object of the request in flight
    trace,          \* this run's pauses, attempts and sleeps, in order
    seen,           \* the outcomes this run's attempts have met
    result,         \* what session.get returned or raised
    df,             \* the table: a sequence of rows
    errors,         \* st.error diagnostics emitted in this run
    warnings,       \* number of st.warning("Using fallback data ...") in this run
    previous,       \* ids of the live snapshot of the run before, same currency
    selected_coin,  \* the names chosen in the multiselect
    num_coin,       \* the value of the slider
    df_selected_coin \* the table handed to the charts

charts == <<selected_coin, num_coin, df_selected_coin>>

vars == <<pc, runs, market, current_price, retry, trace, seen, result, df, errors,
          warnings, previous, charts>>

-----------------------------------------------------------------------------
(* Bounds of the model *)

MaxRuns == 2
MarketSize == 101
RetryAfter == 20

(* Program constants *)

retries == 3
backoff_factor == 3
per_page == 100
page == 1
timeout == 100
pause == 10

\* st.slider('Display Top N Coins', 1, 100, 10)
slider_min == 1
slider_max == 100
slider_default == 10

status_forcelist == {500, 502, 504, 429}
RETRY_AFTER_STATUS_CODES == {413, 429, 503}
Currencies == {"usd", "btc", "inr", "eth", "eur", "jpy"}

Min(a, b) == IF a < b THEN a ELSE b

RECURSIVE Pow2(_)
Pow2(n) == IF n = 0 THEN 1 ELSE 2 * Pow2(n - 1)

-----------------------------------------------------------------------------
(* The upstream: GET /coins/markets *)

MarketSizes == {0, 5, MarketSize}

TopIds == <<"bitcoin", "ethereum", "tether", "binancecoin", "solana">>
TopNames == <<"Bitcoin", "Ethereum", "Tether", "BNB", "Solana">>

Rate(cur) ==
    CASE cur = "usd" -> 100
      [] cur = "btc" -> 1
      [] cur = "inr" -> 8000
      [] cur = "eth" -> 3
      [] cur = "eur" -> 90
      [] cur = "jpy" -> 15000

\* The asset ranked i by market capitalisation, priced in cur.
Asset(i, cur) ==
    [id |-> IF i <= 5 THEN TopIds[i] ELSE "coin-" \o ToString(i),
     name |-> IF i <= 5 THEN TopNames[i] ELSE "Coin " \o ToString(i),
     current_price |-> (MarketSize + 1 - i) * Rate(cur),
     market_cap |-> (MarketSize + 1 - i) * 10 * Rate(cur),
     total_volume |-> ((i * 7) % 11) * Rate(cur),
     price_change_percentage_24h |-> ((i * 5) % 7) - 3,
     image |-> "https://assets/" \o ToString(i) \o ".png"]

\* The JSON list a 200 answers params with: order=market_cap_desc, page 1 of
\* pages of per_page assets.
MarketsPage(m, params) ==
    [i \in 1..Min(params.per_page, m) |-> Asset(i, params.vs_currency)]

BodyKinds == {"list", "not_json", "scalar_object", "nested_object"}
ErrorStatuses == {404, 413, 429, 500, 502, 503, 504}
TransportErrors == {"NewConnectionError", "ConnectTimeoutError", "ReadTimeoutError"}

\* The Retry-After header a response may carry: none (0) on any status, a delay
\* on a 413, a 429 or a 503.
RetryAfterOf(s) == IF s \in {413, 429, 503} THEN {0, RetryAfter} ELSE {0}

\* What one attempt on the wire can yield.
Outcomes ==
    {[type |-> "response", status |-> 200, retry_after |-> 0, what |-> b] :
        b \in BodyKinds}
    \cup UNION {{[type |-> "response", status |-> s, retry_after |-> ra,
                   what |-> "error"] : ra \in RetryAfterOf(s)} : s \in ErrorStatuses}
    \cup {[type |-> "error", status |-> 0, retry_after |-> 0, what |-> e] :
        e \in TransportErrors}

-----------------------------------------------------------------------------
(* The transport policy: requests_retry_session and urllib3's Retry *)

\* A session whose budget is one retry short.
requests_retry_session_short ==
    [total |-> retries - 1, read |-> retries - 1, connect |-> retries - 1,
     history |-> 0]

\* Retry(total=retries, read=retries, connect=retries, ...); history is the
\* number of entries of Retry.history (no entry is a redirect).
requests_retry_session ==
    [total |-> retries, read |-> retries, connect |-> retries, history |-> 0]

NoRetry == [total |-> 0, read |-> 0, connect |-> 0, history |-> 0]

_is_connection_error(o) ==
    o.type = "error" /\ o.what \in {"NewConnectionError", "ConnectTimeoutError"}

_is_read_error(o) ==
    o.type = "error" /\ o.what \in {"ReadTimeoutError"}

\* Retry.increment: total always drops; connect or read drops with the kind of
\* error; a response drops only total (status=None).
increment(r, o) ==
    [total |-> r.total - 1,
     connect |-> IF _is_connection_error(o) THEN r.connect - 1 ELSE r.connect,
     read |-> IF _is_read_error(o) THEN r.read - 1 ELSE r.read,
     history |-> r.history + 1]

is_exhausted(r) == r.total < 0 \/ r.connect < 0 \/ r.read < 0

\* A policy that retries any error status.
is_retry_any_error(r, status_code, has_retry_after) == status_code >= 400

\* Retry.is_retry for a GET: a status of status_forcelist, or, while total is
\* not 0, a status of RETRY_AFTER_STATUS_CODES that carries a Retry-After header
\* (respect_retry_after_header keeps its default, True).
is_retry(r, status_code, has_retry_after) ==
    \/ status_code \in status_forcelist
    \/ /\ r.total # 0
       /\ has_retry_after
       /\ status_code \in RETRY_AFTER_STATUS_CODES

\* A backoff that does not grow.
get_backoff_time_flat(r) == backoff_factor

\* Retry.get_backoff_time: nothing after the first error, then
\* backoff_factor * 2^(consecutive errors - 1).  (The cap, 120 s, is out of
\* reach of three retries.)
get_backoff_time(r) ==
    IF r.history <= 1 THEN 0 ELSE backoff_factor * Pow2(r.history - 1)

\* Retry.sleep: the Retry-After of the response when it has one, else the backoff.
sleep(r, o) ==
    IF o.type = "response" /\ o.retry_after > 0
    THEN o.retry_after
    ELSE get_backoff_time(r)

-----------------------------------------------------------------------------
(* requests: what session.get hands back, and the exception classes *)

NoResult == [kind |-> "none", cls |-> "none", status |-> 0, body |-> "none"]

Response(o) ==
    [kind |-> "response", cls |-> "Response", status |-> o.status, body |-> o.what]

Exception(c, status) ==
    [kind |-> "exception", cls |-> c, status |-> status, body |-> "none"]

\* HTTPAdapter.send on MaxRetryError: by the reason it carries.
send_raises(o) ==
    IF o.type = "response" THEN Exception("RetryError", o.status)
    ELSE IF o.what = "ConnectTimeoutError" THEN Exception("ConnectTimeout", 0)
    ELSE Exception("ConnectionError", 0)

\* The classes of requests.exceptions (and ValueError) with their bases.
Bases(c) ==
    CASE c = "HTTPError" -> {"RequestException"}
      [] c = "ConnectionError" -> {"RequestException"}
      [] c = "Timeout" -> {"RequestException"}
      [] c = "ConnectTimeout" -> {"ConnectionError", "Timeout", "RequestException"}
      [] c = "ReadTimeout" -> {"Timeout", "RequestException"}
      [] c = "RetryError" -> {"RequestException"}
      [] c = "JSONDecodeError" -> {"InvalidJSONError", "RequestException", "ValueError"}
      [] OTHER -> {}

isinstance(c, base) == c = base \/ base \in Bases(c)

-----------------------------------------------------------------------------
(* get_crypto_data: the try block after session.get, and the except clause *)

params(cur) ==
    [vs_currency |-> cur, order |-> "market_cap_desc", per_page |-> per_page,
     page |-> page, sparkline |-> FALSE]

NotRaised == Exception("none", 0)

\* response.raise_for_status(): HTTPError for a 4xx or 5xx status.
raise_for_status(res) ==
    IF res.status >= 400 /\ res.status < 600
    THEN Exception("HTTPError", res.status)
    ELSE NotRaised

\* response.json(): requests.exceptions.JSONDecodeError, a RequestException, on
\* a body that is no JSON (requests >= 2.27; before that a plain ValueError,
\* which the except clause would not catch).
json(res) ==
    IF res.body = "not_json" THEN Exception("JSONDecodeError", 0) ELSE NotRaised

\* pd.DataFrame(data): a list of objects becomes one row per object with every
\* key a column; an object of scalars ({"error": "..."}) raises ValueError; an
\* object of objects ({"status": {"error_code": .., "error_message": ..}}) becomes
\* one row per inner key.
DataFrame_raises(res) ==
    IF res.body = "scalar_object" THEN Exception("ValueError", 0) ELSE NotRaised

\* A tabulation that turns the list over.
DataFrame_reversed(res, m, cur) ==
    CASE res.body = "list" ->
            [i \in 1..Len(MarketsPage(m, params(cur))) |->
                MarketsPage(m, params(cur))[Len(MarketsPage(m, params(cur))) + 1 - i]]
      [] res.body = "nested_object" ->
            <<[status |-> "429"], [status |-> "You've exceeded the Rate Limit"]>>
      [] OTHER -> << >>

DataFrame(res, m, cur) ==
    CASE res.body = "list" -> MarketsPage(m, params(cur))
      [] res.body = "nested_object" ->
            <<[status |-> "429"], [status |-> "You've exceeded the Rate Limit"]>>
      [] OTHER -> << >>

\* Lines 48-55 once session.get is over: the exception that leaves the try
\* block, NotRaised when the block reaches its return.
try_block(res) ==
    IF res.kind = "exception" THEN res
    ELSE IF raise_for_status(res) # NotRaised THEN raise_for_status(res)
    ELSE IF json(res) # NotRaised THEN json(res)
    ELSE DataFrame_raises(res)

\* An except clause that tests Timeout before ConnectionError and has lost the
\* ConnectionError branch.
except_clause_no_connection(e) ==
    IF isinstance(e.cls, "HTTPError")
    THEN IF e.status = 429
         THEN [kind |-> "RateLimited", status |-> 0]
         ELSE [kind |-> "HttpError", status |-> e.status]
    ELSE IF isinstance(e.cls, "Timeout")
    THEN [kind |-> "Timeout", status |-> 0]
    ELSE [kind |-> "UnexpectedFailure", status |-> 0]

\* except requests.exceptions.RequestException as e: the diagnostic of st.error.
except_clause(e) ==
    IF isinstance(e.cls, "HTTPError")
    THEN IF e.status = 429
         THEN [kind |-> "RateLimited", status |-> 0]
         ELSE [kind |-> "HttpError", status |-> e.status]
    ELSE IF isinstance(e.cls, "ConnectionError")
    THEN [kind |-> "ConnectionFailure", status |-> 0]
    ELSE IF isinstance(e.cls, "Timeout")
    THEN [kind |-> "Timeout", status |-> 0]
    ELSE [kind |-> "UnexpectedFailure", status |-> 0]

\* df.empty
empty(d) == Len(d) = 0

\* df['id']: the record identities of a table, in the table's order.
Ids(d) == [i \in DOMAIN d |-> d[i].id]

get_fallback_crypto_data ==
    <<[name |-> "Bitcoin", current_price |-> 50000, market_cap |-> 1000000,
       total_volume |-> 30000, price_change_percentage_24h |-> 25],
      [name |-> "Ethereum", current_price |-> 3000, market_cap |-> 500000,
       total_volume |-> 20000, price_change_percentage_24h |-> -12],
      [name |-> "Tether", current_price |-> 1, market_cap |-> 80000,
       total_volume |-> 50000, price_change_percentage_24h |-> 1],
      [name |-> "BNB", current_price |-> 300, market_cap |-> 50000,
       total_volume |-> 5000, price_change_percentage_24h |-> 15],
      [name |-> "Solana", current_price |-> 100, market_cap |-> 30000,
       total_volume |-> 3000, price_change_percentage_24h |-> -8]>>

-----------------------------------------------------------------------------
(* The script *)

Event(ev, t) == [ev |-> ev, t |-> t]

Init ==
    /\ pc = "start"
    /\ runs = 1
    /\ market \in MarketSizes
    /\ current_price = "usd"
    /\ retry = NoRetry
    /\ trace = << >>
    /\ seen = {}
    /\ result = NoResult
    /\ df = << >>
    /\ errors = << >>
    /\ warnings = 0
    /\ previous = << >>
    /\ selected_coin = {}
    /\ num_coin = slider_default
    /\ df_selected_coin = << >>

\* A get_crypto_data whose retry budget is what the fetches before it left of
\* one budget shared by all of them.
Begin_shared_budget ==
    /\ pc = "start"
    /\ retry' = [requests_retry_session EXCEPT !.total = retries - (runs - 1)]
    /\ trace' = Append(trace, Event("pause", pause))
    /\ pc' = "get"
    /\ UNCHANGED <<runs, previous, charts, market, current_price, seen, result, df,
                   errors, warnings>>

\* A get_crypto_data that does not pause before its request.
Begin_no_pause ==
    /\ pc = "start"
    /\ retry' = requests_retry_session
    /\ trace' = trace
    /\ pc' = "get"
    /\ UNCHANGED <<runs, previous, charts, market, current_price, seen, result, df, errors, warnings>>

\* get_crypto_data up to the request: the session, the params, time.sleep(1).
Begin ==
    /\ pc = "start"
    /\ retry' = requests_retry_session
    /\ trace' = Append(trace, Event("pause", pause))
    /\ pc' = "get"
    /\ UNCHANGED <<runs, previous, charts, market, current_price, seen, result, df, errors, warnings>>

\* One attempt of session.get(url, params=params, timeout=10) with outcome o:
\* one pass of urlopen's retry loop.
AttemptError(o) ==
    /\ o.type = "error"
    /\ IF is_exhausted(increment(retry, o))
       THEN /\ result' = send_raises(o)
            /\ trace' = Append(trace, Event("attempt", timeout))
            /\ pc' = "got"
       ELSE /\ result' = result
            /\ trace' = IF sleep(increment(retry, o), o) > 0
                        THEN trace \o <<Event("attempt", timeout),
                                        Event("sleep", sleep(increment(retry, o), o))>>
                        ELSE Append(trace, Event("attempt", timeout))
            /\ pc' = "get"
    /\ retry' = increment(retry, o)

AttemptRetriedStatus(o) ==
    /\ o.type = "response"
    /\ is_retry(retry, o.status, o.retry_after > 0)
    /\ IF is_exhausted(increment(retry, o))
       THEN /\ result' = send_raises(o)
            /\ trace' = Append(trace, Event("attempt", timeout))
            /\ pc' = "got"
       ELSE /\ result' = result
            /\ trace' = IF sleep(increment(retry, o), o) > 0
                        THEN trace \o <<Event("attempt", timeout),
                                        Event("sleep", sleep(increment(retry, o), o))>>
                        ELSE Append(trace, Event("attempt", timeout))
            /\ pc' = "get"
    /\ retry' = increment(retry, o)

AttemptResponse(o) ==
    /\ o.type = "response"
    /\ ~is_retry(retry, o.status, o.retry_after > 0)
    /\ result' = Response(o)
    /\ trace' = Append(trace, Event("attempt", timeout))
    /\ pc' = "got"
    /\ retry' = retry

Attempt ==
    /\ pc = "get"
    /\ \E o \in Outcomes :
          /\ \/ AttemptError(o)
             \/ AttemptRetriedStatus(o)
             \/ AttemptResponse(o)
          /\ seen' = seen \cup {o}
    /\ UNCHANGED <<runs, previous, charts, market, current_price, df, errors, warnings>>

\* The rest of get_crypto_data and the assignment of its value to df:
\* raise_for_status, json, DataFrame, and the except clause.
Returns ==
    /\ try_block(result) = NotRaised
    /\ df' = DataFrame(result, market, current_price)
    /\ errors' = errors
    /\ pc' = "returned"

\* An except clause that returns the empty table without a diagnostic.
Caught_silent ==
    /\ try_block(result) # NotRaised
    /\ isinstance(try_block(result).cls, "RequestException")
    /\ errors' = errors
    /\ df' = << >>
    /\ pc' = "returned"

Caught ==
    /\ try_block(result) # NotRaised
    /\ isinstance(try_block(result).cls, "RequestException")
    /\ errors' = Append(errors, except_clause(try_block(result)))
    /\ df' = << >>
    /\ pc' = "returned"

Propagates ==
    /\ try_block(result) # NotRaised
    /\ ~isinstance(try_block(result).cls, "RequestException")
    /\ UNCHANGED <<df, errors>>
    /\ pc' = "raised"

Complete ==
    /\ pc = "got"
    /\ \/ Returns
       \/ Caught
       \/ Propagates
    /\ UNCHANGED <<runs, previous, charts, market, current_price, retry, trace, seen, result, warnings>>

\* An orchestration that appends the fallback rows to whatever was fetched.
UseFallback_append ==
    /\ pc = "returned"
    /\ warnings' = warnings + 1
    /\ df' = df \o get_fallback_crypto_data
    /\ pc' = "done"
    /\ UNCHANGED <<runs, previous, charts, market, current_price, retry, trace, seen, result, errors>>

\* if df.empty: st.warning(...); df = get_fallback_crypto_data()
UseFallback ==
    /\ pc = "returned"
    /\ empty(df)
    /\ warnings' = warnings + 1
    /\ df' = get_fallback_crypto_data
    /\ pc' = "done"
    /\ UNCHANGED <<runs, previous, charts, market, current_price, retry, trace, seen, result, errors>>

KeepLive ==
    /\ pc = "returned"
    /\ ~empty(df)
    /\ pc' = "done"
    /\ UNCHANGED <<runs, previous, charts, market, current_price, retry, trace, seen, result, df, errors,
                   warnings>>

\* The user picks a currency: Streamlit runs the script again from the top.
Rerun ==
    /\ pc \in {"done", "raised"}
    /\ runs < MaxRuns
    /\ runs' = runs + 1
    /\ \E c \in Currencies : current_price' = c
    /\ pc' = "start"
    /\ retry' = NoRetry
    /\ trace' = << >>
    /\ seen' = {}
    /\ result' = NoResult
    /\ df' = << >>
    /\ errors' = << >>
    /\ warnings' = 0
    /\ previous' = IF /\ pc = "done" /\ warnings = 0 /\ result.body = "list"
                      /\ current_price' = current_price
                   THEN Ids(df)
                   ELSE << >>
    /\ UNCHANGED <<market, charts>>

Next ==
    \/ Begin
    \/ Attempt
    \/ Complete
    \/ UseFallback
    \/ KeepLive
    \/ Rerun

Spec == Init /\ [][Next]_vars

-----------------------------------------------------------------------------
(* The selection handed to the charts: lines 133-145 *)

MaxPick == 4

\* The names the user's selection is drawn from: options of the multiselect
\* (names of the table), the first ones and the last one.
SelectPool(d) == {d[i].name : i \in ((1..(MaxPick - 1)) \cup {Len(d)}) \cap DOMAIN d}

\* Values of the slider.
NumCoins == {slider_min, 2, 3, slider_default, slider_max}

\* df[df['name'].isin(names)]
isin(d, names) == SelectSeq(d, LAMBDA row : row.name \in names)

\* DataFrame.head(n), n >= 0
head(d, n) == SubSeq(d, 1, Min(n, Len(d)))

\* The script at line 131 after a fetch that met outcome o at its first attempt.
Fetched(o) ==
    /\ pc = "done"
    /\ retry = requests_retry_session
    /\ trace = <<Event("pause", pause), Event("attempt", timeout)>>
    /\ seen = {o}
    /\ result = Response(o)
    /\ errors = IF try_block(Response(o)) = NotRaised
                THEN << >>
                ELSE <<except_clause(try_block(Response(o)))>>
    /\ LET d == IF try_block(Response(o)) = NotRaised
                THEN DataFrame(Response(o), market, current_price)
                ELSE << >>
       IN  /\ df = IF empty(d) THEN get_fallback_crypto_data ELSE d
           /\ warnings = IF empty(d) THEN 1 ELSE 0

InitSelect ==
    /\ runs = 1
    /\ market \in MarketSizes
    /\ current_price = "usd"
    /\ previous = << >>
    /\ selected_coin = {}
    /\ num_coin = slider_default
    /\ df_selected_coin = << >>
    /\ \E o \in {o \in Outcomes : o.type = "response" /\ o.retry_after = 0
                                  /\ o.status \in {200, 404}
                                  /\ o.what \in {"list", "error"}} : Fetched(o)

\* st.multiselect('Cryptocurrency', sorted_coins, ...) and st.slider(...): the
\* values the user has set.
Widgets ==
    /\ pc = "done"
    /\ \E names \in SUBSET SelectPool(df) : selected_coin' = names
    /\ \E n \in NumCoins : num_coin' = n
    /\ pc' = "widgets"
    /\ UNCHANGED <<runs, previous, market, current_price, retry, trace, seen, result,
                   df, errors, warnings, df_selected_coin>>

\* A filter that cuts the table to num_coin rows before it selects.
Filter_head_first ==
    /\ pc = "widgets"
    /\ df_selected_coin' = isin(head(df, num_coin), selected_coin)
    /\ pc' = "charts"
    /\ UNCHANGED <<runs, previous, market, current_price, retry, trace, seen, result,
                   df, errors, warnings, selected_coin, num_coin>>

\* df_selected_coin = df[df['name'].isin(selected_coin)].head(num_coin)
Filter ==
    /\ pc = "widgets"
    /\ df_selected_coin' = head(isin(df, selected_coin), num_coin)
    /\ pc' = "charts"
    /\ UNCHANGED <<runs, previous, market, current_price, retry, trace, seen, result,
                   df, errors, warnings, selected_coin, num_coin>>

NextSelect ==
    \/ Widgets
    \/ Filter

SelectSpec == InitSelect /\ [][NextSelect]_vars

-----------------------------------------------------------------------------
(* Properties *)

\* Network attempts made so far in this run.
Attempts == Cardinality({i \in DOMAIN trace : trace[i].ev = "attempt"})

\* The table a 200 with the upstream's list tabulates to.
LiveTable == MarketsPage(market, params(current_price))

Diagnostic(kind) == [kind |-> kind, status |-> 0]

AssetRecordFields ==
    {"id", "name", "current_price", "market_cap", "total_volume",
     "price_change_percentage_24h"}

NonNegative(row) ==
    /\ {"current_price", "market_cap", "total_volume"} \subseteq DOMAIN row
    /\ row.current_price >= 0
    /\ row.market_cap >= 0
    /\ row.total_volume >= 0

\* The try block of get_crypto_data ended in an exception.
Failed == try_block(result) # NotRaised

RetryableStatus(o) == o.type = "response" /\ o.status \in {500, 502, 504, 429}

Success(o) == o.type = "response" /\ o.status = 200 /\ o.what = "list"

\* C1: whatever the upstream does, a fetch run that has ended has ended in
\* SUCCESS, holding the live or the fallback snapshot; it never ends in an
\* error the consumer sees.
C1_TerminalIsSuccess ==
    pc \in {"done", "raised"} =>
        /\ pc = "done"
        /\ ~empty(df)
        /\ df = LiveTable \/ df = get_fallback_crypto_data

\* C2: on every failure kind, an exception while parsing or tabulating the body
\* included, get_crypto_data does not raise: it has reported one classified
\* error and returned an empty table.
C2_FailSoft ==
    (pc \in {"returned", "raised"} /\ Failed) =>
        /\ pc = "returned"
        /\ Len(errors) = 1
        /\ empty(df)

\* C3: a 429 on every attempt up to max_retries ends in the fallback snapshot
\* with the RateLimited diagnostic and no other.
C3_RateLimited ==
    (/\ pc = "done"
     /\ Attempts = retries + 1
     /\ \A o \in seen : o.type = "response" /\ o.status = 429) =>
        /\ df = get_fallback_crypto_data
        /\ errors = <<Diagnostic("RateLimited")>>

\* C4: a connection error on every attempt ends in the fallback snapshot with
\* the ConnectionFailure diagnostic.
C4_ConnectionFailure ==
    (/\ pc = "done"
     /\ Attempts = retries + 1
     /\ \A o \in seen : o.type = "error" /\ o.what = "NewConnectionError") =>
        /\ df = get_fallback_crypto_data
        /\ errors = <<Diagnostic("ConnectionFailure")>>

C4_Witness ==
    /\ pc = "done"
    /\ Attempts = retries + 1
    /\ \A o \in seen : o.type = "error" /\ o.what = "NewConnectionError"
    /\ warnings = 1
    /\ df = get_fallback_crypto_data

\* C5: when every earlier attempt failed with a status of {500, 502, 504, 429}
\* and an attempt, up to the last permitted one (attempt retries + 1), succeeds
\* with a list of at least one asset, the fetch ends with the live snapshot, no
\* error diagnostic and no fallback; and the fetch gives up on such statuses
\* only once attempt retries + 1 has failed.
C5_LiveOnLastRetry ==
    /\ (/\ pc = "done"
        /\ result.kind = "response" /\ result.status = 200 /\ result.body = "list"
        /\ market >= 1
        /\ \A o \in seen : Success(o) \/ RetryableStatus(o)) =>
           /\ df = LiveTable
           /\ errors = << >>
           /\ warnings = 0
    /\ (pc # "get" /\ result.cls = "RetryError") => Attempts = retries + 1

C5_Witness ==
    /\ pc = "done"
    /\ Attempts = retries + 1
    /\ result.kind = "response" /\ result.status = 200 /\ result.body = "list"
    /\ market >= 1
    /\ \A o \in seen : Success(o) \/ RetryableStatus(o)
    /\ \E o \in seen : o.status = 429
    /\ \E o \in seen : o.status = 504
    /\ df = LiveTable

\* C6 as stated: a fetch makes at most 1 + max_retries attempts, and only an
\* attempt that fails with a connection error, a timeout or a status of
\* {500, 502, 504, 429} is followed by another attempt.
C6_OnlyListedFailuresRetried ==
    /\ Attempts <= 1 + retries
    /\ pc = "get" =>
          \A o \in seen : o.type = "error" \/ o.status \in {500, 502, 504, 429}

\* C6 amended: a fetch makes at most 1 + max_retries attempts, and only an
\* attempt that fails with a connection error, a timeout, a status of
\* {500, 502, 504, 429}, or a 413 or 503 that carries a Retry-After header is
\* followed by another attempt.
C6_RetriedFailures ==
    /\ Attempts <= 1 + retries
    /\ pc = "get" =>
          \A o \in seen :
              \/ o.type = "error"
              \/ o.status \in {500, 502, 504, 429}
              \/ o.status \in {413, 503} /\ o.retry_after > 0

C6_Witness ==
    /\ pc = "got"
    /\ Attempts = 1 + retries
    /\ result.kind = "response" /\ result.status = 404
    /\ \E o \in seen : o.status = 503 /\ o.retry_after > 0
    /\ \E o \in seen : o.type = "error"

\* C7: a successful response of k asset objects (k >= 1, such as 5) ends in
\* exactly k records, none of which has the image field.
C7_RecordsWithoutImage ==
    (/\ pc = "done"
     /\ result.kind = "response" /\ result.status = 200 /\ result.body = "list"
     /\ market >= 1) =>
        /\ Len(df) = Len(LiveTable)
        /\ \A i \in DOMAIN df : "image" \notin DOMAIN df[i]

\* C8: the fallback snapshot has the fields id, name, current_price, market_cap,
\* total_volume, price_change_percentage_24h, at least 5 records, and no
\* negative price, market cap or volume, whatever the quote currency.
C8_FallbackSchema ==
    (pc = "done" /\ warnings = 1) =>
        /\ Len(df) >= 5
        /\ \A i \in DOMAIN df :
              /\ DOMAIN df[i] = AssetRecordFields
              /\ NonNegative(df[i])

\* C9: for every quote currency and every upstream response, the snapshot
\* handed to the consumer has between 1 and 100 records, each with non-negative
\* current_price, market_cap and total_volume.
C9_SnapshotBounds ==
    pc = "done" =>
        /\ Len(df) >= 1
        /\ Len(df) <= 100
        /\ \A i \in DOMAIN df : NonNegative(df[i])

\* C10: a timeout (connect or read) on every attempt ends in the fallback
\* snapshot with the Timeout diagnostic.
C10_TimeoutDiagnostic ==
    (/\ pc = "done"
     /\ Attempts = retries + 1
     /\ \A o \in seen :
           o.type = "error" /\ o.what \in {"ConnectTimeoutError", "ReadTimeoutError"}) =>
        /\ df = get_fallback_crypto_data
        /\ errors = <<Diagnostic("Timeout")>>


\* C11: a fetch that ends with a non-success status other than 429 (500, 502
\* or 504 on every attempt until the retries are exhausted, or a status that is
\* not retried, such as 404) emits the HttpError diagnostic with that status.
C11_HttpError ==
    (/\ pc = "done"
     /\ result.status >= 400 /\ result.status # 429
     /\ \/ result.kind = "response"
        \/ /\ Attempts = retries + 1
           /\ \A o \in seen : o.type = "response" /\ o.status \in {500, 502, 504}) =>
        errors = <<[kind |-> "HttpError", status |-> result.status]>>

\* C12: the snapshot of one fetch is the fetched table or the fallback table,
\* never a merge: the step that hands the snapshot on either keeps a non-empty
\* fetched table as it is, with no fallback, or replaces an empty one by the
\* fallback table, once.
C12_LiveOrFallback ==
    [][(pc = "returned" /\ pc' = "done") =>
          /\ warnings = 0
          /\ IF Len(df) = 0
             THEN df' = get_fallback_crypto_data /\ warnings' = 1
             ELSE df' = df /\ warnings' = 0]_vars

C12_Witness ==
    /\ pc = "done"
    /\ warnings = 1
    /\ Len(errors) = 1
    /\ df = get_fallback_crypto_data

ErrorKinds ==
    {"RateLimited", "HttpError", "ConnectionFailure", "Timeout", "UnexpectedFailure"}

\* C14: a failed fetch has emitted exactly one error diagnostic, of one of the
\* five kinds; a successful fetch has emitted none.
C14_ExactlyOneDiagnostic ==
    pc \in {"returned", "raised", "done"} =>
        IF Failed
        THEN Len(errors) = 1 /\ errors[1].kind \in ErrorKinds
        ELSE errors = << >>

\* C15: in every fetch the pause of at least 1 s happens exactly once, before
\* the first attempt, and no retry repeats it; every attempt carries the 10 s
\* timeout; the request asks for page 1 of pages of 100 assets, so that a
\* fetched list has at most 100 records.
C15_PauseOnceBeforeAttempts ==
    pc # "start" =>
        /\ Len(trace) >= 1
        /\ trace[1].ev = "pause" /\ trace[1].t >= 10
        /\ \A i \in DOMAIN trace :
              /\ trace[i].ev = "pause" => i = 1
              /\ trace[i].ev = "attempt" => trace[i].t = 100
        /\ params(current_price).per_page = 100
        /\ params(current_price).page = 1
        /\ (pc = "returned" /\ result.body = "list") => Len(df) <= 100

C15_Witness ==
    /\ pc = "returned"
    /\ Attempts = retries + 1
    /\ result.body = "list"
    /\ Len(df) = 100
    /\ trace[1].ev = "pause"

\* The place in trace of the n-th attempt of this run.
AttemptAt(n) ==
    CHOOSE i \in DOMAIN trace :
        /\ trace[i].ev = "attempt"
        /\ Cardinality({j \in 1..i : trace[j].ev = "attempt"}) = n

\* The failed attempts of this run that the policy has answered with a retry.
Retried == IF pc = "get" THEN Attempts ELSE Attempts - 1

\* The delay slept between the k-th attempt and the retry that follows it.
DelayBeforeRetry(k) ==
    IF AttemptAt(k) < Len(trace) /\ trace[AttemptAt(k) + 1].ev = "sleep"
    THEN trace[AttemptAt(k) + 1].t
    ELSE 0

\* C17 as stated: every retry is preceded by a delay, and the delay before each
\* retry is strictly larger than the delay before the previous one.
C17_GrowingDelayBeforeEveryRetry ==
    pc \in {"get", "got"} =>
        \A k \in 1..Retried :
            /\ DelayBeforeRetry(k) > 0
            /\ k > 1 => DelayBeforeRetry(k) > DelayBeforeRetry(k - 1)

\* C17 amended: when no response carries a Retry-After header, the first retry
\* follows without delay and retry k > 1 is preceded by a delay of
\* backoff_factor * 2^(k-1) (0.6 s, 1.2 s), each strictly larger than the one
\* before; in any case the delay before a retry is that backoff or the
\* Retry-After of a response.
C17_BackoffDelays ==
    pc \in {"get", "got"} =>
        \A k \in 1..Retried :
            /\ (\A o \in seen : o.retry_after = 0) =>
                  /\ DelayBeforeRetry(k) = IF k = 1 THEN 0 ELSE 3 * Pow2(k - 1)
                  /\ k > 1 => DelayBeforeRetry(k) > DelayBeforeRetry(k - 1)
            /\ \/ DelayBeforeRetry(k) = IF k = 1 THEN 0 ELSE 3 * Pow2(k - 1)
               \/ \E o \in seen : o.retry_after > 0 /\ DelayBeforeRetry(k) = o.retry_after

C17_Witness ==
    /\ pc = "got"
    /\ Attempts = retries + 1
    /\ \A o \in seen : o.retry_after = 0
    /\ DelayBeforeRetry(1) = 0
    /\ DelayBeforeRetry(2) = 6
    /\ DelayBeforeRetry(3) = 12

\* C18 as stated: the fallback snapshot is handed on only after exactly one
\* error diagnostic, and a 200 from the upstream ends in the live snapshot
\* without the fallback.
C18_FallbackOnlyAfterDiagnostic ==
    pc = "done" =>
        /\ warnings >= 1 => Len(errors) = 1
        /\ (result.kind = "response" /\ result.status = 200) =>
              df = LiveTable /\ warnings = 0

\* C18 amended: the fallback snapshot is handed on exactly when the fetched
\* table is empty: after exactly one error diagnostic, or, with no diagnostic,
\* after a 200 whose list is empty; one diagnostic is always followed by the
\* fallback; a 200 with a list of at least one asset ends in the live snapshot
\* without diagnostic or fallback.
C18_FallbackWhenEmpty ==
    pc = "done" =>
        /\ warnings >= 1 =>
              \/ Len(errors) = 1
              \/ /\ errors = << >>
                 /\ result.kind = "response" /\ result.status = 200
                 /\ result.body = "list" /\ market = 0
        /\ Len(errors) >= 1 => warnings = 1 /\ df = get_fallback_crypto_data
        /\ (/\ result.kind = "response" /\ result.status = 200
            /\ result.body = "list" /\ market >= 1) =>
              df = LiveTable /\ warnings = 0 /\ errors = << >>

C18_Witness ==
    /\ pc = "done"
    /\ warnings = 1
    /\ errors = << >>
    /\ market = 0
    /\ Attempts = retries + 1
    /\ df = get_fallback_crypto_data

\* C13: a successful fetch hands on the records in the upstream's order (the
\* first records of the upstream's list by descending market capitalisation,
\* not re-sorted), and when the fetch before it, with the same quote currency,
\* was successful too, the two snapshots have the same record identities in the
\* same order.
C13_Idempotent ==
    (pc = "done" /\ warnings = 0 /\ result.body = "list") =>
        /\ Len(df) = Min(100, market)
        /\ \A i \in DOMAIN df : df[i].id = Asset(i, current_price).id
        /\ \A i, j \in DOMAIN df : i < j => df[i].market_cap >= df[j].market_cap
        /\ previous # << >> => Ids(df) = previous

C13_Witness ==
    /\ pc = "done"
    /\ runs = 2
    /\ warnings = 0
    /\ previous # << >>
    /\ Len(df) = 100
    /\ Ids(df) = previous
    /\ df[1].market_cap > df[100].market_cap

\* C16: every fetch starts with the full retry budget, whatever the fetches
\* before it used: after n attempts of the fetch in flight, max_retries - n
\* retries are left, a fetch gives up on retried failures only at its
\* (1 + max_retries)-th attempt, and what a fetch leaves behind (diagnostics,
\* warning, table) is that of this fetch alone.
C16_IndependentFetches ==
    /\ pc = "get" => retry.total = 3 - Attempts /\ retry.history = Attempts
    /\ (pc = "got" /\ result.kind = "exception"
            /\ \A o \in seen : o.type = "error" \/ RetryableStatus(o)) =>
          Attempts = 3 + 1
    /\ pc = "start" =>
          trace = << >> /\ seen = {} /\ errors = << >> /\ warnings = 0 /\ df = << >>
    /\ Len(errors) <= 1 /\ warnings <= 1
    /\ pc = "done" =>
          /\ (errors # << >>) = (Failed /\ isinstance(try_block(result).cls, "RequestException"))
          /\ (warnings = 1) = (df = get_fallback_crypto_data)
          /\ warnings = 0 => df = DataFrame(result, market, current_price)

C16_Witness ==
    /\ runs = 2
    /\ pc = "got"
    /\ Attempts = retries + 1
    /\ result.kind = "exception"
    /\ retry.total = -1

\* The rows of the snapshot whose name is in the selection.
Matching == {i \in DOMAIN df : df[i].name \in selected_coin}

\* C19: the table handed to the charts has min(num_coin, number of matching
\* rows) rows, so at most num_coin; its j-th row is the j-th row of the snapshot
\* whose name is in the selection, so every name is selected, the snapshot's
\* order is kept and the matching rows after the num_coin-th are dropped; for a
\* live and for a fallback snapshot.
C19_SelectionIsSubsequence ==
    pc = "charts" =>
        /\ Len(df_selected_coin) = Min(num_coin, Cardinality(Matching))
        /\ Len(df_selected_coin) <= num_coin
        /\ \A j \in DOMAIN df_selected_coin :
              /\ df_selected_coin[j].name \in selected_coin
              /\ \E i \in Matching :
                    /\ df_selected_coin[j] = df[i]
                    /\ Cardinality({k \in Matching : k <= i}) = j

C19_Witness ==
    /\ pc = "charts"
    /\ warnings = 0
    /\ Len(df) = 100
    /\ Cardinality(Matching) = 4
    /\ num_coin = 3
    /\ Len(df_selected_coin) = 3
    /\ df_selected_coin[3] = df[3]
=============================================================================
